---------------------------- MODULE Spec2Model ----------------------------
(***************************************************************************)
(* State-machine model of gcc/config/riscv/mkoffload.cc, the offload image *)
(* generation tool for ventus-gpgpu.  One run of main() is modelled: the   *)
(* toolchain lookup, the scan of the argument vector, the construction of  *)
(* the compile-stage and link-stage argument vectors, the per-object debug *)
(* extraction, the compile subprocess, the return and the exit hook.       *)
(*                                                                         *)
(* A C string is a sequence of one-character strings, so that strcmp,      *)
(* startswith, concat and the ".o" suffix test are computed on characters. *)
(* A pointer stored in an obstack is a record [arg, str]: arg is the index *)
(* of the argv slot the pointer was copied from (0 for a literal or a heap *)
(* string) and str is the string it points to.                             *)
(***************************************************************************)
EXTENDS Integers, Sequences, FiniteSets, TLC

VARIABLES
  pc,               \* position of main()
  argv,             \* argv[1..argc-1] after expandargv
  environ,          \* the process environment
  fsys,             \* status of <dir>/GCC_INSTALL_NAME for each directory
  hook,             \* atexit(mkoffload_cleanup) is installed
  driver,           \* char *driver
  found,            \* bool found
  probes,           \* the paths handed to access_check, in call order
  offload_abi,      \* enum offload_abi offload_abi
  fopenmp,          \* bool fopenmp
  fopenacc,         \* bool fopenacc
  save_temps,       \* bool save_temps (collect-utils)
  verbose,          \* bool verbose (collect-utils)
  dumppfx,          \* const char *dumppfx (collect-utils)
  outname,          \* const char *outname
  cc_argv_obstack,  \* struct obstack cc_argv_obstack
  ld_argv_obstack,  \* struct obstack ld_argv_obstack
  names,            \* the artifact names main() holds in locals
  files_to_cleanup, \* the obstack of registered artifact paths
  files,            \* the paths this run has created on disk
  ntemp,            \* number of make_temp_file calls so far
  ix,               \* loop index of the link-argument loop
  dbgcount,         \* int dbgcount
  objects,          \* what each opened input object turned out to hold
  extracted,        \* the copy_early_debug_info calls made, in order
  freed,            \* the heap strings released with free ()
  spawned,          \* the subprocesses launched, in order
  events,           \* the stage events of the run, in order
  deleted,          \* the paths unlinked by the cleanup, in order
  cleanups,         \* number of times the exit hook has run
  exit_kind,        \* how the process ended
  exit_status       \* the status the process exited with

vars == <<pc, argv, environ, fsys, hook, driver, found, probes, offload_abi,
          fopenmp, fopenacc, save_temps, verbose, dumppfx, outname, cc_argv_obstack,
          ld_argv_obstack, names, files_to_cleanup, files, ntemp, ix, dbgcount,
          objects, extracted, freed, spawned, events, deleted, cleanups, exit_kind,
          exit_status>>

-----------------------------------------------------------------------------
(* Bounds of the model. *)

\* longest tail of free tokens appended to a flag prefix of the argument vector
MaxTail == 3
\* longest COMPILER_PATH string, in characters
MaxPathLen == 3

-----------------------------------------------------------------------------
(* The string literals of mkoffload.cc. *)

STR_OFFLOAD_ABI == <<"-", "f", "o", "f", "f", "l", "o", "a", "d", "-", "a", "b", "i", "=">>
S_lp64 == <<"l", "p", "6", "4">>
S_ilp32 == <<"i", "l", "p", "3", "2">>
S_fopenmp == <<"-", "f", "o", "p", "e", "n", "m", "p">>
S_fopenacc == <<"-", "f", "o", "p", "e", "n", "a", "c", "c">>
S_fPIC == <<"-", "f", "P", "I", "C">>
S_fpic == <<"-", "f", "p", "i", "c">>
S_save_temps == <<"-", "s", "a", "v", "e", "-", "t", "e", "m", "p", "s">>
S_v == <<"-", "v">>
S_dumpbase == <<"-", "d", "u", "m", "p", "b", "a", "s", "e">>
S_o == <<"-", "o">>
S_dot_o == <<".", "o">>
S_l == <<"-", "l">>
S_Wl == <<"-", "W", "l">>
S_march == <<"-", "m", "a", "r", "c", "h">>
S_S == <<"-", "S">>
S_xlto == <<"-", "x", "l", "t", "o">>
S_mgomp == <<"-", "m", "g", "o", "m", "p">>
S_mabi_lp64d == <<"-", "m", "a", "b", "i", "=", "l", "p", "6", "4", "d">>
S_mabi_ipl32d == <<"-", "m", "a", "b", "i", "=", "i", "p", "l", "3", "2", "d">>
S_dumpdir == <<"-", "d", "u", "m", "p", "d", "i", "r">>
S_dumpbase_ext == <<"-", "d", "u", "m", "p", "b", "a", "s", "e", "-", "e", "x", "t">>
S_dot_c == <<".", "c">>
S_mkoffload == <<".", "m", "k", "o", "f", "f", "l", "o", "a", "d">>
S_1s == <<".", "1", ".", "s">>
S_2s == <<".", "2", ".", "s">>
S_mkoffload_1s == <<".", "m", "k", "o", "f", "f", "l", "o", "a", "d", ".", "1", ".", "s">>
S_mkoffload_2s == <<".", "m", "k", "o", "f", "f", "l", "o", "a", "d", ".", "2", ".", "s">>
S_mkoffload_dbg == <<".", "m", "k", "o", "f", "f", "l", "o", "a", "d", ".", "d", "b", "g">>
S_mkoffload_dbg_o == <<".", "m", "k", "o", "f", "f", "l", "o", "a", "d", ".", "d", "b", "g", ".", "o">>
S_omp_requires == <<".", "m", "k", "o", "f", "f", "l", "o", "a", "d", ".", "o", "m", "p", "_", "r", "e", "q", "u", "i", "r", "e", "s">>
S_OMP_REQUIRES_ENV == <<"G", "C", "C", "_", "O", "F", "F", "L", "O", "A", "D", "_", "O", "M", "P", "_", "R", "E", "Q", "U", "I", "R", "E", "S", "_", "F", "I", "L", "E", "=">>
S_empty == <<>>
\* GCC_INSTALL_NAME is set by the build; any fixed executable name
GCC_INSTALL_NAME == <<"a", "c", "c", "e", "l", "-", "g", "c", "c">>
\* the null pointer, as a value no character sequence equals
NULLP == <<"(null)">>

-----------------------------------------------------------------------------
(* String and libc/libiberty helpers, computed as the code computes them. *)

\* startswith (const char *str, const char *prefix)
startswith(str, prefix) ==
  /\ Len(str) >= Len(prefix)
  /\ SubSeq(str, 1, Len(prefix)) = prefix

\* concat (first, ..., NULL): the arguments up to the first null pointer
RECURSIVE concat(_)
concat(args) ==
  IF args = <<>> \/ Head(args) = NULLP
    THEN <<>>
    ELSE Head(args) \o concat(Tail(args))

\* the suffix test with the tail taken one character too long
DotOSuffixTest_ThreeBack(s) ==
  IF Len(s) < 3
    THEN BOOLEAN
    ELSE {SubSeq(s, Len(s) - 2, Len(s)) = S_dot_o}

\* strcmp (s + strlen (s) - 2, ".o") == 0.  For strlen (s) < 2 the pointer
\* lies before the string: the comparison reads foreign bytes and may come
\* out either way.
DotOSuffixTest(s) ==
  IF Len(s) < 2
    THEN BOOLEAN
    ELSE {SubSeq(s, Len(s) - 1, Len(s)) = S_dot_o}

\* index of the last '/' of a path, 0 when it has none
LastSlash(s) ==
  LET at == {i \in 1..Len(s) : s[i] = "/"}
  IN  IF at = {} THEN 0 ELSE CHOOSE i \in at : \A j \in at : j <= i

\* dirname (path), for paths without trailing slashes
dirname(s) ==
  IF LastSlash(s) = 0 THEN <<".">>
  ELSE IF LastSlash(s) = 1 THEN <<"/">>
  ELSE SubSeq(s, 1, LastSlash(s) - 1)

\* basename (path), for paths without trailing slashes
basename(s) == SubSeq(s, LastSlash(s) + 1, Len(s))

\* the status of a path of the file system
FileStatus(fs, name) == IF name \in DOMAIN fs THEN fs[name] ELSE "absent"

\* access_check (name, X_OK): stat must succeed on a non-directory, and
\* access () must grant execution
access_check(fs, name) ==
  IF FileStatus(fs, name) \in {"absent", "dir"}
    THEN -1
    ELSE IF FileStatus(fs, name) = "exec" THEN 0 ELSE -1

\* the text of str before its first ':' (all of it when it has none)
UpToColon(str) ==
  LET at == {i \in 1..Len(str) : str[i] = ":"}
  IN  IF at = {} THEN str
      ELSE SubSeq(str, 1, (CHOOSE i \in at : \A j \in at : i <= j) - 1)

\* parse_env_var (str, &values): the ':'-separated fields of str, in order;
\* one more field than str has colons
RECURSIVE parse_env_var(_)
parse_env_var(str) ==
  LET first == UpToColon(str)
  IN  IF Len(first) = Len(str)
        THEN <<first>>
        ELSE <<first>> \o parse_env_var(SubSeq(str, Len(first) + 2, Len(str)))

\* sprintf (driver, "%s/%s", dir, GCC_INSTALL_NAME)
DriverIn(dir) == dir \o <<"/">> \o GCC_INSTALL_NAME

\* the loop over COMPILER_PATH of main (): probes paths[i..] in order and
\* stops at the first executable candidate
RECURSIVE SearchPaths(_, _, _, _)
SearchPaths(fs, paths, i, acc) ==
  IF i > Len(paths)
    THEN acc
    ELSE LET cand == DriverIn(paths[i])
             now  == [acc EXCEPT !.driver = cand,
                                 !.probes = Append(acc.probes, cand)]
         IN  IF access_check(fs, cand) = 0
               THEN [now EXCEPT !.found = TRUE]
               ELSE SearchPaths(fs, paths, i + 1, now)

\* a pointer held in an obstack: the argv slot it was copied from, or 0
ArgPtr(i, s) == [arg |-> i, str |-> s]
Lit(s) == [arg |-> 0, str |-> s]

\* the random file name of the n-th make_temp_file call
TempStem == <<"$1", "$2", "$3", "$4", "$5", "$6", "$7", "$8", "$9", "$10",
              "$11", "$12">>

\* make_temp_file (suffix): a fresh name, and the file is created
make_temp_file(n, suffix) == <<"/", "t", "m", "p", "/", TempStem[n + 1]>> \o suffix

\* sprintf (buf, "%d", n) for the counts the model reaches
Decimal(n) == <<<<"0">>, <<"1">>, <<"2">>, <<"3">>, <<"4">>, <<"5">>, <<"6">>,
                <<"7">>, <<"8">>, <<"9">>>>[n + 1]

\* the status main () ends with: return -1 is seen as 255 by the parent,
\* fatal_error exits with FATAL_EXIT_CODE, an internal error (gcc_assert,
\* gcc_unreachable) with ICE_EXIT_CODE, SIGSEGV as 128 + 11
ExitStatusOf(kind) ==
  CASE kind = "return"   -> (-1) % 256
    [] kind = "fatal"    -> 1
    [] kind = "internal" -> 4
    [] kind = "signal"   -> 139
    [] OTHER             -> 0

-----------------------------------------------------------------------------
(* The inputs of a run. *)

T_abi_lp64 == STR_OFFLOAD_ABI \o S_lp64
T_abi_ilp32 == STR_OFFLOAD_ABI \o S_ilp32
T_abi_other == STR_OFFLOAD_ABI \o <<"x", "3", "2">>
T_obj == <<"a", ".", "o">>
T_lib == <<"-", "l", "m">>
T_path == <<"o", "u", "t">>
\* a one-character argument, shorter than the ".o" suffix
T_short == <<"t">>

\* the flag prefixes of the argument vectors explored
Prefixes ==
  { m \o a \o s : m \in {<<S_fopenmp>>, <<S_fopenacc>>},
                  a \in {<<T_abi_lp64>>, <<T_abi_ilp32>>},
                  s \in {<<>>, <<S_save_temps>>} }
  \cup { <<>>, <<T_abi_lp64>>, <<S_fopenmp>>,
         <<S_fopenmp, S_fopenacc, T_abi_lp64>>,
         <<S_fopenmp, T_abi_other>>,
         <<S_fopenmp, S_fopenacc, T_abi_other>>,
         <<S_v, S_fopenmp, T_abi_lp64>>,
         <<S_fopenacc, T_abi_lp64, S_dumpbase, S_fopenmp>>,
         <<S_v, S_fopenmp, T_abi_lp64, T_short>>,
         <<S_fopenmp, T_abi_lp64, S_save_temps, S_dumpbase, T_path>> }

\* the free tokens that may follow a prefix
TailTokens == {S_o, T_path, T_obj, T_lib}

RECURSIVE SeqsUpTo(_, _)
SeqsUpTo(S, n) ==
  IF n = 0 THEN {<<>>}
  ELSE LET shorter == SeqsUpTo(S, n - 1)
       IN  shorter \cup {Append(t, x) : t \in {u \in shorter : Len(u) = n - 1}, x \in S}

ArgVectors == {p \o t : p \in Prefixes, t \in SeqsUpTo(TailTokens, MaxTail)}

EnvNames == {"COLLECT_GCC", "COMPILER_PATH", "GCC_EXEC_PREFIX", "LIBRARY_PATH",
             "GCC_OFFLOAD_OMP_REQUIRES_FILE"}

Environment(collect, cpath) ==
  [n \in EnvNames |->
     CASE n = "COLLECT_GCC"     -> collect
       [] n = "COMPILER_PATH"   -> cpath
       [] n = "GCC_EXEC_PREFIX" -> <<"p">>
       [] OTHER                 -> NULLP]

C_gcc == <<"g", "c", "c">>
C_dir_gcc == <<"d", "/", "g", "c", "c">>

\* COMPILER_PATH values: strings over two directory letters and ':'
PathStrings == SeqsUpTo({"a", "b", ":"}, MaxPathLen)

FileStatuses == {"absent", "dir", "noexec", "exec"}

\* the candidate drivers whose status varies
Candidates == {DriverIn(<<"d">>), DriverIn(<<"a">>), DriverIn(<<"b">>)}

\* what an input object can turn out to be when copy_early_debug_info
\* works on it
ObjKinds == {"unopenable", "notobject", "nodebug", "copyfail", "reopenfail",
             "shorthdr", "badmachine", "badshdr", "good"}

\* the relocation types (elf.h) of the relocation tables explored: the
\* types the commented-out switch names, and one it does not
RelocTables ==
  { <<>>,
    <<"R_X86_64_32", "R_X86_64_PC32">>,
    <<"R_X86_64_64", "R_X86_64_RELATIVE", "R_X86_64_GOT32">> }

NoObjects == [p \in {} |-> [kind |-> "good", relocs |-> <<>>]]

ObstackInit == [grow |-> <<>>, fin |-> <<>>]

\* obstack_ptr_grow (&obstack, p)
obstack_ptr_grow(ob, p) == [ob EXCEPT !.grow = Append(ob.grow, p)]

\* XOBFINISH (&obstack, T): the growing object becomes a finished one
XOBFINISH(ob) == [grow |-> <<>>, fin |-> Append(ob.fin, ob.grow)]

RECURSIVE GrowAll(_, _)
GrowAll(ob, ps) ==
  IF ps = <<>> THEN ob ELSE GrowAll(obstack_ptr_grow(ob, Head(ps)), Tail(ps))

InitCommon ==
  /\ pc = "start"
  /\ hook = FALSE
  /\ driver = NULLP
  /\ found = FALSE
  /\ probes = <<>>
  /\ offload_abi = "OFFLOAD_ABI_UNSET"
  /\ fopenmp = FALSE
  /\ fopenacc = FALSE
  /\ save_temps = FALSE
  /\ verbose = FALSE
  /\ dumppfx = NULLP
  /\ outname = NULLP
  /\ cc_argv_obstack = ObstackInit
  /\ ld_argv_obstack = ObstackInit
  /\ names = [cfile |-> NULLP, s1 |-> NULLP, s2 |-> NULLP, o |-> NULLP,
              mko |-> NULLP, abi |-> NULLP, omp |-> NULLP,
              execpath |-> NULLP, cpath |-> NULLP, lpath |-> NULLP,
              status |-> 0]
  /\ files_to_cleanup = <<>>
  /\ files = {}
  /\ ntemp = 0
  /\ ix = 0
  /\ dbgcount = 0
  /\ objects = NoObjects
  /\ extracted = <<>>
  /\ freed = {}
  /\ spawned = <<>>
  /\ events = <<>>
  /\ deleted = <<>>
  /\ cleanups = 0
  /\ exit_kind = "running"
  /\ exit_status = 0

\* runs over the argument vectors, with the driver found beside COLLECT_GCC or
\* on PATH, or COLLECT_GCC unset
InitArgs ==
  /\ argv \in ArgVectors
  /\ environ \in {Environment(c, <<"a">>) : c \in {NULLP, C_gcc}}
  /\ fsys = [p \in Candidates |-> "absent"]

\* runs over the toolchain layouts, with an empty argument vector
InitToolchain ==
  /\ argv = <<>>
  /\ environ \in {Environment(C_dir_gcc, cp) : cp \in PathStrings \cup {NULLP}}
  /\ fsys \in [Candidates -> FileStatuses]

Init == InitCommon /\ (InitArgs \/ InitToolchain)

-----------------------------------------------------------------------------
(* Process exit. *)

\* exit (status), or death by signal: the atexit hook runs on exit when it
\* was installed, and never on a signal
Terminate(kind, installed) ==
  /\ exit_kind' = kind
  /\ exit_status' = ExitStatusOf(kind)
  /\ pc' = IF installed /\ kind # "signal" THEN "atexit" ELSE "done"

Continue(next) ==
  /\ pc' = next
  /\ UNCHANGED <<exit_kind, exit_status>>

\* the statement order with the compile subprocess launched before the loop
\* that extracts the debug info
NextStage_CompileFirst(stage) ==
  CASE stage = "start"    -> "locate"
    [] stage = "locate"   -> "scan"
    [] stage = "scan"     -> "check"
    [] stage = "check"    -> "build_cc"
    [] stage = "build_cc" -> "cfile"
    [] stage = "cfile"    -> "names"
    [] stage = "names"    -> "env"
    [] stage = "env"      -> "compile"
    [] stage = "compile"  -> "ldloop"
    [] OTHER              -> "return"

\* the order of the statements of main (): the stage that follows each stage
\* when it neither fails nor is skipped
NextStage(stage) ==
  CASE stage = "start"    -> "locate"
    [] stage = "locate"   -> "scan"
    [] stage = "scan"     -> "check"
    [] stage = "check"    -> "build_cc"
    [] stage = "build_cc" -> "cfile"
    [] stage = "cfile"    -> "names"
    [] stage = "names"    -> "ldloop"
    [] stage = "ldloop"   -> "env"
    [] stage = "env"      -> "compile"
    [] OTHER              -> "return"

\* tool_cleanup (from_signal): the body is empty, so the disk and the record
\* of deletions come back as they went in
tool_cleanup(registry, disk, gone) == [files |-> disk, deleted |-> gone]

-----------------------------------------------------------------------------
(* main (), lines 210-223: the registry and the exit hook. *)

Startup ==
  /\ pc = "start"
  /\ \E ok \in BOOLEAN :
       IF ok
         THEN hook' = TRUE /\ Continue(NextStage("start"))
         ELSE hook' = FALSE /\ Terminate("fatal", FALSE)
  /\ files_to_cleanup' = <<>>
  /\ UNCHANGED <<argv, environ, fsys, driver, found, probes, offload_abi,
                 fopenmp, fopenacc, save_temps, verbose, dumppfx, outname,
                 cc_argv_obstack, ld_argv_obstack, names, files, ntemp, ix,
                 dbgcount, objects, extracted, freed, spawned, events, deleted,
                 cleanups>>

-----------------------------------------------------------------------------
(* main (), lines 225-270: the toolchain lookup. *)

\* the outcomes of the lookup: found, driver, the access_check calls made,
\* and how the lookup ends ("ok", "fatal" or "signal")
LocateOutcomes(env, fs) ==
  LET collect_gcc == env["COLLECT_GCC"]
      gcc_exec    == basename(collect_gcc)
      gcc_path    == IF gcc_exec = collect_gcc THEN NULLP ELSE dirname(collect_gcc)
      direct      == DriverIn(gcc_path)
      none        == [found |-> FALSE, driver |-> NULLP, probes |-> <<>>, end |-> "fatal"]
      Ended(r)    == [r EXCEPT !.end = IF r.found THEN "ok" ELSE "fatal"]
  IN  IF collect_gcc = NULLP
        THEN {none}
      ELSE IF gcc_path = NULLP
        THEN {[found |-> TRUE, driver |-> GCC_INSTALL_NAME, probes |-> <<>>,
               end |-> "ok"]}
      ELSE IF access_check(fs, direct) = 0
        THEN {[found |-> TRUE, driver |-> direct, probes |-> <<direct>>,
               end |-> "ok"]}
      ELSE IF env["COMPILER_PATH"] = NULLP
        \* parse_env_var (NULL, ...) hands a null pointer to strchr: the
        \* process dies on the read, or the read yields no directory
        THEN {[none EXCEPT !.probes = <<direct>>, !.end = "signal"],
              [none EXCEPT !.probes = <<direct>>]}
      ELSE {Ended(SearchPaths(fs, parse_env_var(env["COMPILER_PATH"]), 1,
                              [none EXCEPT !.probes = <<direct>>]))}

LocateToolchain ==
  /\ pc = "locate"
  /\ \E r \in LocateOutcomes(environ, fsys) :
       /\ found' = r.found
       /\ driver' = r.driver
       /\ probes' = r.probes
       /\ IF r.end = "ok"
            THEN events' = Append(events, "resolve") /\ Continue(NextStage("locate"))
            ELSE UNCHANGED events /\ Terminate(r.end, hook)
  /\ UNCHANGED <<argv, environ, fsys, hook, offload_abi, fopenmp, fopenacc,
                 save_temps, verbose, dumppfx, outname, cc_argv_obstack,
                 ld_argv_obstack, names, files_to_cleanup, files, ntemp, ix,
                 dbgcount, objects, extracted, freed, spawned, deleted, cleanups>>

-----------------------------------------------------------------------------
(* main (), lines 272-304: the scan of the argument vector. *)

ScanStart ==
  [abi |-> "OFFLOAD_ABI_UNSET", fopenmp |-> FALSE, fopenacc |-> FALSE,
   save_temps |-> FALSE, verbose |-> FALSE, dumppfx |-> NULLP, fatal |-> FALSE]

\* one pass of the loop body at index i, then the rest of the loop; the scan
\* stops at an unrecognizable -foffload-abi= value
RECURSIVE ScanFrom(_, _, _)
ScanFrom(av, i, s) ==
  IF i > Len(av) THEN s
  ELSE IF startswith(av[i], STR_OFFLOAD_ABI) THEN
    LET value == SubSeq(av[i], Len(STR_OFFLOAD_ABI) + 1, Len(av[i]))
    IN  IF value = S_lp64
          THEN ScanFrom(av, i + 1, [s EXCEPT !.abi = "OFFLOAD_ABI_LP64"])
        ELSE IF value = S_ilp32
          THEN ScanFrom(av, i + 1, [s EXCEPT !.abi = "OFFLOAD_ABI_ILP32"])
        ELSE [s EXCEPT !.fatal = TRUE]
  ELSE IF av[i] = S_fopenmp THEN ScanFrom(av, i + 1, [s EXCEPT !.fopenmp = TRUE])
  ELSE IF av[i] = S_fopenacc THEN ScanFrom(av, i + 1, [s EXCEPT !.fopenacc = TRUE])
  ELSE IF av[i] = S_fPIC THEN ScanFrom(av, i + 1, s)
  ELSE IF av[i] = S_fpic THEN ScanFrom(av, i + 1, s)
  ELSE IF av[i] = S_save_temps THEN ScanFrom(av, i + 1, [s EXCEPT !.save_temps = TRUE])
  ELSE IF av[i] = S_v THEN ScanFrom(av, i + 1, [s EXCEPT !.verbose = TRUE])
  ELSE IF av[i] = S_dumpbase /\ i + 1 <= Len(av)
    THEN ScanFrom(av, i + 2, [s EXCEPT !.dumppfx = av[i + 1]])
  ELSE ScanFrom(av, i + 1, s)

ScanArguments ==
  /\ pc = "scan"
  /\ LET s == ScanFrom(argv, 1, ScanStart)
     IN  /\ offload_abi' = s.abi
         /\ fopenmp' = s.fopenmp
         /\ fopenacc' = s.fopenacc
         /\ save_temps' = s.save_temps
         /\ verbose' = s.verbose
         /\ dumppfx' = s.dumppfx
         /\ IF s.fatal THEN Terminate("fatal", hook) ELSE Continue(NextStage("scan"))
  /\ UNCHANGED <<argv, environ, fsys, hook, driver, found, probes, outname,
                 cc_argv_obstack, ld_argv_obstack, names, files_to_cleanup,
                 files, ntemp, ix, dbgcount, objects, extracted, freed, spawned,
                 events, deleted, cleanups>>

-----------------------------------------------------------------------------
(* main (), lines 306-319: the model flags and the ABI option. *)

\* the flag test with | written for ^
ModelFlagsOk_Or(acc, omp) == acc \/ omp

\* fopenacc ^ fopenmp
ModelFlagsOk(acc, omp) == acc # omp

\* the switch on offload_abi; NULLP stands for the gcc_unreachable default
AbiOption(abi) ==
  CASE abi = "OFFLOAD_ABI_LP64"  -> S_mabi_lp64d
    [] abi = "OFFLOAD_ABI_ILP32" -> S_mabi_ipl32d
    [] OTHER                     -> NULLP

CheckConfiguration ==
  /\ pc = "check"
  /\ IF ~ModelFlagsOk(fopenacc, fopenmp)
       THEN UNCHANGED names /\ Terminate("fatal", hook)
     ELSE IF AbiOption(offload_abi) = NULLP
       THEN UNCHANGED names /\ Terminate("internal", hook)
     ELSE /\ names' = [names EXCEPT !.abi = AbiOption(offload_abi)]
          /\ Continue(NextStage("check"))
  /\ UNCHANGED <<argv, environ, fsys, hook, driver, found, probes, offload_abi,
                 fopenmp, fopenacc, save_temps, verbose, dumppfx, outname,
                 cc_argv_obstack, ld_argv_obstack, files_to_cleanup, files,
                 ntemp, ix, dbgcount, objects, extracted, freed, spawned, events,
                 deleted, cleanups>>

-----------------------------------------------------------------------------
(* main (), lines 321-341: the compile-stage argument vector. *)

\* the test of lines 337 and 396: argv[i] is "-o" and a token follows it
IsOutputOption(av, i) == av[i] = S_o /\ i + 1 # Len(av) + 1

\* the loop of lines 336-341 with the link-stage arguments held back from
\* the compile-stage vector
RECURSIVE CompilePass_NoLinkArgs(_, _, _)
CompilePass_NoLinkArgs(av, i, st) ==
  IF i > Len(av) THEN st
  ELSE IF IsOutputOption(av, i)
    THEN CompilePass_NoLinkArgs(av, i + 2, [st EXCEPT !.outname = av[i + 1]])
  ELSE IF startswith(av[i], S_l) \/ startswith(av[i], S_Wl)
            \/ startswith(av[i], S_march)
    THEN CompilePass_NoLinkArgs(av, i + 1, st)
    ELSE CompilePass_NoLinkArgs(av, i + 1,
           [st EXCEPT !.ob = obstack_ptr_grow(st.ob, ArgPtr(i, av[i]))])

\* the loop of lines 336-341 from index i: "-o" and the token after it set
\* outname, every other argv pointer is appended
RECURSIVE CompilePass(_, _, _)
CompilePass(av, i, st) ==
  IF i > Len(av) THEN st
  ELSE IF IsOutputOption(av, i)
    THEN CompilePass(av, i + 2, [st EXCEPT !.outname = av[i + 1]])
    ELSE CompilePass(av, i + 1,
                     [st EXCEPT !.ob = obstack_ptr_grow(st.ob, ArgPtr(i, av[i]))])

\* the fixed head of the compile-stage vector, lines 324-334
CompileHead(drv, abi, save, verb, omp) ==
  <<Lit(drv), Lit(S_S)>>
    \o (IF save THEN <<Lit(S_save_temps)>> ELSE <<>>)
    \o (IF verb THEN <<Lit(S_v)>> ELSE <<>>)
    \o <<Lit(abi), Lit(S_xlto)>>
    \o (IF omp THEN <<Lit(S_mgomp)>> ELSE <<>>)

BuildCompileArgs ==
  /\ pc = "build_cc"
  /\ LET head == GrowAll(ObstackInit,
                         CompileHead(driver, names.abi, save_temps, verbose, fopenmp))
         st   == CompilePass(argv, 1, [ob |-> head, outname |-> outname])
     IN  /\ cc_argv_obstack' = st.ob
         /\ outname' = st.outname
  /\ events' = Append(events, "translate")
  /\ Continue(NextStage("build_cc"))
  /\ UNCHANGED <<argv, environ, fsys, hook, driver, found, probes, offload_abi,
                 fopenmp, fopenacc, save_temps, verbose, dumppfx,
                 ld_argv_obstack, names, files_to_cleanup, files, ntemp, ix,
                 dbgcount, objects, extracted, freed, spawned, deleted, cleanups>>

-----------------------------------------------------------------------------
(* main (), lines 343-357: the generated C file. *)

\* fopen (name, "w"): the empty name cannot be opened; any other may fail
FopenWrite(name) == IF name = <<>> THEN {FALSE} ELSE BOOLEAN

OpenCFile ==
  /\ pc = "cfile"
  /\ LET pfx          == IF dumppfx = NULLP THEN outname ELSE dumppfx
         gcn_dumpbase == concat(<<pfx, S_dot_c>>)
         cname        == IF save_temps THEN gcn_dumpbase
                                       ELSE make_temp_file(ntemp, S_dot_c)
         made         == IF save_temps THEN files ELSE files \cup {cname}
     IN  /\ dumppfx' = pfx
         /\ names' = [names EXCEPT !.cfile = cname]
         /\ ntemp' = IF save_temps THEN ntemp ELSE ntemp + 1
         /\ files_to_cleanup' = Append(files_to_cleanup, cname)
         /\ \E opened \in FopenWrite(cname) :
              IF opened
                THEN /\ files' = made \cup {cname}
                     /\ Continue(IF offload_abi = "OFFLOAD_ABI_LP64"
                                   THEN NextStage("cfile") ELSE "return")
                ELSE /\ files' = made
                     /\ Terminate("fatal", hook)
  /\ UNCHANGED <<argv, environ, fsys, hook, driver, found, probes, offload_abi,
                 fopenmp, fopenacc, save_temps, verbose, outname,
                 cc_argv_obstack, ld_argv_obstack, ix, dbgcount, objects,
                 extracted, freed, spawned, events, deleted, cleanups>>

-----------------------------------------------------------------------------
(* main (), lines 359-392: the assembler names, the end of the compile-stage
   vector and the start of the link-stage vector. *)

\* the values an uninitialized pointer may hold: null, a wild address, or
\* what an earlier use of the stack slot left there
UninitPointers(stale) == {NULLP, <<"(wild)">>, stale}

NameArtifacts ==
  /\ pc = "names"
  /\ LET mko_dumpbase == concat(<<dumppfx, S_mkoffload>>)
         gcn_s1_name  == IF save_temps THEN concat(<<mko_dumpbase, S_1s>>)
                         ELSE make_temp_file(ntemp, S_mkoffload_1s)
         gcn_s2_name  == IF save_temps THEN concat(<<mko_dumpbase, S_2s>>)
                         ELSE make_temp_file(ntemp + 1, S_mkoffload_2s)
     IN  \E gcn_o_name \in UninitPointers(gcn_s1_name) :
           /\ names' = [names EXCEPT !.mko = mko_dumpbase, !.s1 = gcn_s1_name,
                                     !.s2 = gcn_s2_name, !.o = gcn_o_name]
           /\ ntemp' = IF save_temps THEN ntemp ELSE ntemp + 2
           /\ files' = IF save_temps THEN files
                       ELSE files \cup {gcn_s1_name, gcn_s2_name}
           /\ files_to_cleanup' =
                files_to_cleanup \o <<gcn_s1_name, gcn_s2_name, gcn_o_name>>
           /\ cc_argv_obstack' =
                XOBFINISH(GrowAll(cc_argv_obstack,
                  <<Lit(S_dumpdir), Lit(S_empty), Lit(S_dumpbase),
                    Lit(mko_dumpbase), Lit(S_dumpbase_ext), Lit(S_empty),
                    Lit(S_o), Lit(gcn_s1_name), Lit(NULLP)>>))
  /\ ld_argv_obstack' = obstack_ptr_grow(ObstackInit, Lit(driver))
  /\ dbgcount' = 0
  /\ ix' = 1
  /\ Continue(NextStage("names"))
  /\ UNCHANGED <<argv, environ, fsys, hook, driver, found, probes, offload_abi,
                 fopenmp, fopenacc, save_temps, verbose, dumppfx, outname,
                 objects, extracted, freed, spawned, events, deleted, cleanups>>

-----------------------------------------------------------------------------
(* copy_early_debug_info (infile, outfile), lines 105-208. *)

\* a variant that looks for the early-debug section only after it has
\* started the output file
copy_early_debug_info_CopyFirst(kind, outfile, disk) ==
  CASE kind \in {"unopenable", "notobject"} ->
         [ret |-> "false", files |-> disk, wrote |-> FALSE]
    [] kind \in {"nodebug", "reopenfail"} ->
         [ret |-> "false", files |-> disk \cup {outfile}, wrote |-> TRUE]
    [] kind = "copyfail" ->
         [ret |-> "false", files |-> disk \ {outfile}, wrote |-> TRUE]
    [] kind = "badmachine" ->
         [ret |-> "abort", files |-> disk \cup {outfile}, wrote |-> TRUE]
    [] OTHER ->
         [ret |-> "true", files |-> disk \cup {outfile}, wrote |-> TRUE]

\* the result of the call on an input of the given kind, and the disk after
\* it: "false" and "true" are the return values, "abort" is the failed
\* gcc_assert on e_machine
copy_early_debug_info(kind, outfile, disk) ==
  CASE kind \in {"unopenable", "notobject", "nodebug"} ->
         [ret |-> "false", files |-> disk, wrote |-> FALSE]
    [] kind = "copyfail" ->
         [ret |-> "false", files |-> disk \ {outfile}, wrote |-> TRUE]
    [] kind = "reopenfail" ->
         [ret |-> "false", files |-> disk \cup {outfile}, wrote |-> TRUE]
    [] kind = "badmachine" ->
         [ret |-> "abort", files |-> disk \cup {outfile}, wrote |-> TRUE]
    [] OTHER ->
         [ret |-> "true", files |-> disk \cup {outfile}, wrote |-> TRUE]

\* the relocation types of the SHT_RELA sections of the output after the
\* loop of lines 163-205 over the copied records: the switch that rewrote
\* r_info is commented out and nothing is written back to the file
RelocsAfter(relocs) == relocs

-----------------------------------------------------------------------------
(* main (), lines 394-417: one pass of the loop over the arguments that
   extracts the debug info of each object. *)

\* the kinds the object at path may have: the one seen at an earlier call,
\* or any kind at the first call
KindsOf(known, path) ==
  IF path \in DOMAIN known THEN {known[path].kind} ELSE ObjKinds

\* the relocation types the copied SHT_RELA sections of an object of the
\* given kind may hold: the ones seen at an earlier call, or any table at
\* the first call on an object whose copy can be read back
RelocsOf(known, path, kind) ==
  IF path \in DOMAIN known THEN {known[path].relocs}
  ELSE IF kind = "good" THEN RelocTables ELSE {<<>>}

LinkArgStep ==
  /\ pc = "ldloop"
  /\ ix <= Len(argv)
  /\ IF IsOutputOption(argv, ix)
       THEN /\ ix' = ix + 2
            /\ Continue("ldloop")
            /\ UNCHANGED <<ld_argv_obstack, files_to_cleanup, files, ntemp,
                           dbgcount, objects, extracted, freed, events>>
       ELSE \E isobj \in DotOSuffixTest(argv[ix]) :
         IF ~isobj
           THEN /\ ix' = ix + 1
                /\ Continue("ldloop")
                /\ UNCHANGED <<ld_argv_obstack, files_to_cleanup, files, ntemp,
                               dbgcount, objects, extracted, freed, events>>
           ELSE
             LET dbgobj == IF save_temps
                             THEN concat(<<dumppfx, S_mkoffload_dbg,
                                           Decimal(dbgcount), S_dot_o>>)
                             ELSE make_temp_file(ntemp, S_mkoffload_dbg_o)
                 disk   == IF save_temps THEN files ELSE files \cup {dbgobj}
             IN  \E kind \in KindsOf(objects, argv[ix]) :
                 \E relocs \in RelocsOf(objects, argv[ix], kind) :
                   LET r == copy_early_debug_info(kind, dbgobj, disk)
                   IN  /\ objects' = (argv[ix] :> [kind |-> kind, relocs |-> relocs])
                                        @@ objects
                       /\ dbgcount' = IF save_temps THEN dbgcount + 1 ELSE dbgcount
                       /\ ntemp' = IF save_temps THEN ntemp ELSE ntemp + 1
                       /\ files' = r.files
                       /\ extracted' = Append(extracted,
                            [arg |-> ix, infile |-> argv[ix], out |-> dbgobj,
                             ret |-> r.ret, kind |-> kind, pre |-> disk,
                             post |-> r.files, wrote |-> r.wrote,
                             relocs |-> relocs,
                             relocs_out |-> IF r.ret = "true"
                                              THEN RelocsAfter(relocs)
                                              ELSE <<>>])
                       /\ events' = Append(events, "extract")
                       /\ files_to_cleanup' =
                            IF r.ret = "true"
                              THEN files_to_cleanup \o <<dbgobj, dbgobj>>
                              ELSE Append(files_to_cleanup, dbgobj)
                       /\ ld_argv_obstack' =
                            IF r.ret = "true"
                              THEN obstack_ptr_grow(ld_argv_obstack, Lit(dbgobj))
                              ELSE ld_argv_obstack
                       /\ freed' = IF r.ret = "false" THEN freed \cup {dbgobj}
                                                      ELSE freed
                       /\ IF r.ret = "abort"
                            THEN ix' = ix /\ Terminate("internal", hook)
                            ELSE ix' = ix + 1 /\ Continue("ldloop")
  /\ UNCHANGED <<argv, environ, fsys, hook, driver, found, probes, offload_abi,
                 fopenmp, fopenacc, save_temps, verbose, dumppfx, outname,
                 cc_argv_obstack, names, spawned, deleted, cleanups>>

-----------------------------------------------------------------------------
(* main (), lines 419-439: the end of the link-stage vector. *)

\* the test of lines 426-427
IsLinkArg(s) == startswith(s, S_l) \/ startswith(s, S_Wl) \/ startswith(s, S_march)

\* the loop of lines 425-428 from index i
RECURSIVE LinkPass(_, _, _)
LinkPass(av, i, ob) ==
  IF i > Len(av) THEN ob
  ELSE LinkPass(av, i + 1,
                IF IsLinkArg(av[i]) THEN obstack_ptr_grow(ob, ArgPtr(i, av[i]))
                                    ELSE ob)

FinishLinkArgs ==
  /\ pc = "ldloop"
  /\ ix > Len(argv)
  /\ LET flags  == (IF verbose THEN <<Lit(S_v)>> ELSE <<>>)
                     \o (IF save_temps THEN <<Lit(S_save_temps)>> ELSE <<>>)
         passed == LinkPass(argv, 1, GrowAll(ld_argv_obstack, flags))
     IN  ld_argv_obstack' =
           XOBFINISH(GrowAll(passed, <<Lit(S_o), Lit(names.o), Lit(NULLP)>>))
  /\ cc_argv_obstack' =
       GrowAll(cc_argv_obstack,
               <<Lit(S_dumpdir), Lit(S_empty), Lit(S_dumpbase),
                 Lit(S_dumpbase_ext), Lit(S_empty)>>)
  /\ Continue(NextStage("ldloop"))
  /\ UNCHANGED <<argv, environ, fsys, hook, driver, found, probes, offload_abi,
                 fopenmp, fopenacc, save_temps, verbose, dumppfx, outname,
                 names, files_to_cleanup, files, ntemp, ix, dbgcount, objects,
                 extracted, freed, spawned, events, deleted, cleanups>>

-----------------------------------------------------------------------------
(* main (), lines 441-454: the environment and the side-channel file. *)

PrepareEnvironment ==
  /\ pc = "env"
  /\ LET omp_requires_file ==
           IF save_temps THEN concat(<<dumppfx, S_omp_requires>>)
                         ELSE make_temp_file(ntemp, S_omp_requires)
     IN  /\ names' = [names EXCEPT !.execpath = environ["GCC_EXEC_PREFIX"],
                                   !.cpath = environ["COMPILER_PATH"],
                                   !.lpath = environ["LIBRARY_PATH"],
                                   !.omp = omp_requires_file]
         /\ ntemp' = IF save_temps THEN ntemp ELSE ntemp + 1
         /\ files' = IF save_temps THEN files ELSE files \cup {omp_requires_file}
         /\ files_to_cleanup' = Append(files_to_cleanup, omp_requires_file)
  /\ environ' = [environ EXCEPT !["GCC_EXEC_PREFIX"] = NULLP,
                                !["COMPILER_PATH"] = NULLP,
                                !["LIBRARY_PATH"] = NULLP]
  /\ Continue(NextStage("env"))
  /\ UNCHANGED <<argv, fsys, hook, driver, found, probes, offload_abi, fopenmp,
                 fopenacc, save_temps, verbose, dumppfx, outname,
                 cc_argv_obstack, ld_argv_obstack, ix, dbgcount, objects,
                 extracted, freed, spawned, events, deleted, cleanups>>

-----------------------------------------------------------------------------
(* main (), lines 456-460: the compile subprocess. *)

\* the exit statuses a subprocess may return to fork_execute
SubprocessStatuses == {0, 1}

\* fork_execute (prog, argv, ...): runs the program and waits for it; a
\* nonzero status is a fatal error
fork_execute(status) == IF status = 0 THEN "returns" ELSE "fatal"

CompileStage ==
  /\ pc = "compile"
  /\ LET cc_argv == cc_argv_obstack.fin[1]
         during  == [environ EXCEPT !["GCC_OFFLOAD_OMP_REQUIRES_FILE"] = names.omp]
     IN  /\ spawned' = Append(spawned, [stage |-> "compile",
                                        prog |-> cc_argv[1].str,
                                        args |-> cc_argv,
                                        env |-> during])
         /\ events' = Append(events, "compile")
         /\ \E status \in SubprocessStatuses :
              IF fork_execute(status) = "returns"
                THEN /\ cc_argv_obstack' = ObstackInit
                     /\ environ' = [during EXCEPT
                                      !["GCC_OFFLOAD_OMP_REQUIRES_FILE"] = NULLP]
                     /\ names' = [names EXCEPT !.status = status]
                     /\ Continue(NextStage("compile"))
                ELSE /\ cc_argv_obstack' = cc_argv_obstack
                     /\ environ' = during
                     /\ names' = [names EXCEPT !.status = status]
                     /\ Terminate("fatal", hook)
  /\ UNCHANGED <<argv, fsys, hook, driver, found, probes, offload_abi, fopenmp,
                 fopenacc, save_temps, verbose, dumppfx, outname,
                 ld_argv_obstack, files_to_cleanup, files, ntemp, ix, dbgcount,
                 objects, extracted, freed, deleted, cleanups>>

-----------------------------------------------------------------------------
(* main (), line 463, and the exit hook, lines 40-42. *)

ReturnFromMain ==
  /\ pc = "return"
  /\ Terminate("return", hook)
  /\ UNCHANGED <<argv, environ, fsys, hook, driver, found, probes, offload_abi,
                 fopenmp, fopenacc, save_temps, verbose, dumppfx, outname,
                 cc_argv_obstack, ld_argv_obstack, names, files_to_cleanup,
                 files, ntemp, ix, dbgcount, objects, extracted, freed, spawned,
                 events, deleted, cleanups>>

mkoffload_cleanup ==
  /\ pc = "atexit"
  /\ LET r == tool_cleanup(files_to_cleanup, files, deleted)
     IN  /\ files' = r.files
         /\ deleted' = r.deleted
  /\ cleanups' = cleanups + 1
  /\ pc' = "done"
  /\ UNCHANGED <<argv, environ, fsys, hook, driver, found, probes, offload_abi,
                 fopenmp, fopenacc, save_temps, verbose, dumppfx, outname,
                 cc_argv_obstack, ld_argv_obstack, names, files_to_cleanup,
                 ntemp, ix, dbgcount, objects, extracted, freed, spawned,
                 events, exit_kind, exit_status>>

-----------------------------------------------------------------------------

Next ==
  \/ Startup
  \/ LocateToolchain
  \/ ScanArguments
  \/ CheckConfiguration
  \/ BuildCompileArgs
  \/ OpenCFile
  \/ NameArtifacts
  \/ LinkArgStep
  \/ FinishLinkArgs
  \/ PrepareEnvironment
  \/ CompileStage
  \/ ReturnFromMain
  \/ mkoffload_cleanup

Spec == Init /\ [][Next]_vars

-----------------------------------------------------------------------------
(* Vocabulary of the properties. *)

Count(seq, x) == Cardinality({k \in DOMAIN seq : seq[k] = x})

\* the argv slots whose pointers a vector holds
ArgSlots(vec) == {vec[k].arg : k \in DOMAIN vec} \ {0}

\* the compile-stage vector while it exists, and the link-stage vector
CompileSetBuilt == pc \in {"cfile", "names", "ldloop", "env", "compile"}
CompileSet ==
  IF cc_argv_obstack.fin # <<>> THEN cc_argv_obstack.fin[1]
                                ELSE cc_argv_obstack.grow
LinkSetBuilt == ld_argv_obstack.fin # <<>>
LinkSet == ld_argv_obstack.fin[1]

HasDotOSuffix(s) == Len(s) >= 2 /\ s[Len(s) - 1] = "." /\ s[Len(s)] = "o"

HasLinkPrefix(s) ==
  \/ Len(s) >= 2 /\ s[1] = "-" /\ s[2] = "l"
  \/ Len(s) >= 3 /\ s[1] = "-" /\ s[2] = "W" /\ s[3] = "l"
  \/ Len(s) >= 6 /\ SubSeq(s, 1, 6) = <<"-", "m", "a", "r", "c", "h">>

\* the slots read as "-o" from slot i on, each with the slot after it; a "-o"
\* in the last slot has no slot after it
RECURSIVE OutputSlots(_, _)
OutputSlots(av, i) ==
  IF i > Len(av) THEN {}
  ELSE IF av[i] = <<"-", "o">>
    THEN ({i, i + 1} \cap (1..Len(av))) \cup OutputSlots(av, i + 2)
    ELSE OutputSlots(av, i + 1)

\* the slots of "-o <path>" pairs from slot i on
RECURSIVE OutputPairs(_, _)
OutputPairs(av, i) ==
  IF i >= Len(av) THEN {}
  ELSE IF av[i] = <<"-", "o">>
    THEN {i, i + 1} \cup OutputPairs(av, i + 2)
    ELSE OutputPairs(av, i + 1)

\* the slots read as options from slot i on: every slot but the one that
\* follows a "-dumpbase", which is its operand
RECURSIVE OptionSlots(_, _)
OptionSlots(av, i) ==
  IF i > Len(av) THEN {}
  ELSE IF av[i] = <<"-", "d", "u", "m", "p", "b", "a", "s", "e">> /\ i < Len(av)
    THEN {i} \cup OptionSlots(av, i + 2)
    ELSE {i} \cup OptionSlots(av, i + 1)

\* the path after the last "-o" that has one, from slot i on
RECURSIVE LastOutputPath(_, _, _)
LastOutputPath(av, i, cur) ==
  IF i >= Len(av) THEN cur
  ELSE IF av[i] = <<"-", "o">>
    THEN LastOutputPath(av, i + 2, av[i + 1])
    ELSE LastOutputPath(av, i + 1, cur)

Stages(names_) == {k \in DOMAIN events : events[k] \in names_}

\* every event of kind a comes before every event of kind b
Precedes(a, b) ==
  \A i \in Stages({a}), j \in Stages({b}) : i < j

Launches(stage) == {k \in DOMAIN spawned : spawned[k].stage = stage}

-----------------------------------------------------------------------------
(* C1: by process exit every registered path has been deleted exactly once,
   or save-temps was active and the path is retained; none is deleted twice
   and none is left on disk when save-temps is off. *)
C1_RegisteredPathsCleaned ==
  pc = "done" =>
    \A k \in DOMAIN files_to_cleanup :
      LET p == files_to_cleanup[k]
      IN  /\ Count(deleted, p) <= 1
          /\ \/ Count(deleted, p) = 1 /\ p \notin files
             \/ save_temps /\ Count(deleted, p) = 0

-----------------------------------------------------------------------------
(* C2, as claimed: toolchain resolution, argument translation, the compile
   launch, every debug extraction and the link launch happen in this order. *)
C2_CompileBeforeExtraction ==
  /\ Precedes("resolve", "translate")
  /\ Precedes("translate", "compile")
  /\ Precedes("compile", "extract")
  /\ Precedes("extract", "link")

(* C2, amended: toolchain resolution precedes argument translation, which
   precedes every debug extraction, which precedes the compile launch; a link
   launch comes after all of them; and each stage but extraction happens at
   most once. *)
C2_ExtractionBeforeCompile ==
  /\ Precedes("resolve", "translate")
  /\ Precedes("translate", "extract")
  /\ Precedes("extract", "compile")
  /\ Precedes("translate", "compile")
  /\ Precedes("compile", "link")
  /\ \A s \in {"resolve", "translate", "compile", "link"} :
       Cardinality(Stages({s})) <= 1
  /\ Stages({"compile"}) # {} => Stages({"resolve"}) # {} /\ Stages({"translate"}) # {}
  /\ Stages({"extract"}) # {} => Stages({"translate"}) # {}

C2_Witness ==
  /\ pc = "done"
  /\ Stages({"extract"}) # {}
  /\ Stages({"compile"}) # {}

-----------------------------------------------------------------------------
(* C3: when the compile subprocess of a valid invocation exits 0, the link
   subprocess is launched exactly once with the link-stage vector, which
   holds the debug bundle of an object iff its extraction succeeded. *)
C3_LinkLaunchedOnce ==
  (pc = "done" /\ Launches("compile") # {} /\ names.status = 0) =>
    /\ Cardinality(Launches("link")) = 1
    /\ \A k \in Launches("link") :
         /\ spawned[k].args = LinkSet
         /\ \A e \in DOMAIN extracted :
              (extracted[e].ret = "true") <=>
                (\E a \in DOMAIN LinkSet : LinkSet[a].str = extracted[e].out)

-----------------------------------------------------------------------------
(* C4: the exit status is 0 when every stage succeeds, and nonzero only when
   a fatal condition occurred. *)
C4_ExitStatus ==
  pc = "done" =>
    /\ exit_kind = "return" => exit_status = 0
    /\ exit_status # 0 => exit_kind \in {"fatal", "internal", "signal"}

-----------------------------------------------------------------------------
(* C5: an invocation with both -fopenmp and -fopenacc, or with neither, ends
   in an error exit with a nonzero status, and at no point of the run has a
   subprocess been spawned or a temp file been created or registered. *)
BadModelFlags(av) ==
  (\E i \in OptionSlots(av, 1) : av[i] = <<"-", "f", "o", "p", "e", "n", "m", "p">>)
    <=> (\E i \in OptionSlots(av, 1) :
           av[i] = <<"-", "f", "o", "p", "e", "n", "a", "c", "c">>)

C5_BadModelFlagsFailEarly ==
  BadModelFlags(argv) =>
    /\ spawned = <<>>
    /\ files = {}
    /\ files_to_cleanup = <<>>
    /\ ntemp = 0
    /\ pc \notin {"cfile", "names", "ldloop", "env", "compile", "return"}
    /\ pc = "done" => exit_status # 0 /\ exit_kind \in {"fatal", "signal"}

C5_Witness ==
  /\ pc = "done"
  /\ fopenmp /\ fopenacc
  /\ exit_kind = "fatal"
  /\ found

-----------------------------------------------------------------------------
(* C6: -foffload-abi= maps to lp64 or ilp32, any other value is fatal during
   the scan before any subprocess, and with either recognized value the run
   goes on past argument translation to the compile stage. *)
AbiValues(av) ==
  {SubSeq(av[i], Len(STR_OFFLOAD_ABI) + 1, Len(av[i])) :
     i \in {j \in OptionSlots(av, 1) : startswith(av[j], STR_OFFLOAD_ABI)}}

C6_BothAbisReachCompile ==
  /\ (pc = "done" /\ found /\ AbiValues(argv) \ {S_lp64, S_ilp32} # {}) =>
       exit_kind = "fatal" /\ spawned = <<>> /\ Stages({"translate"}) = {}
  /\ (pc \notin {"start", "locate", "scan"} /\ exit_kind = "running") =>
       /\ offload_abi = "OFFLOAD_ABI_LP64" => S_lp64 \in AbiValues(argv)
       /\ offload_abi = "OFFLOAD_ABI_ILP32" => S_ilp32 \in AbiValues(argv)
  /\ pc = "return" => Launches("compile") # {}

-----------------------------------------------------------------------------
(* C7, as claimed: no input argument is forwarded to both vectors; the ones
   with a link prefix go only to the link-stage vector and all others, but
   the consumed "-o <path>", only to the compile-stage vector. *)
C7_SetsDisjoint ==
  (LinkSetBuilt /\ CompileSetBuilt) =>
    LET eligible == DOMAIN argv \ OutputPairs(argv, 1)
    IN  /\ ArgSlots(CompileSet) \cap ArgSlots(LinkSet) = {}
        /\ ArgSlots(LinkSet) = {i \in eligible : HasLinkPrefix(argv[i])}
        /\ ArgSlots(CompileSet) = {i \in eligible : ~HasLinkPrefix(argv[i])}

(* C7, amended: the compile-stage vector receives every input argument
   except each consumed "-o" and its path, once and in order; the link-stage
   vector, when it is built, receives exactly the input arguments with a link
   prefix; so an argument with a link prefix that is not consumed by "-o" is
   forwarded to both, and the union is the input less the "-o" tokens that
   are consumed and the paths after them that have no link prefix. *)
C7_LinkArgsInBothSets ==
  /\ CompileSetBuilt =>
       /\ ArgSlots(CompileSet) = DOMAIN argv \ OutputPairs(argv, 1)
       /\ \A a, b \in DOMAIN CompileSet :
            (a < b /\ CompileSet[a].arg > 0 /\ CompileSet[b].arg > 0)
              => CompileSet[a].arg < CompileSet[b].arg
       /\ \A a \in DOMAIN CompileSet :
            CompileSet[a].arg > 0 => CompileSet[a].str = argv[CompileSet[a].arg]
  /\ LinkSetBuilt =>
       /\ ArgSlots(LinkSet) = {i \in DOMAIN argv : HasLinkPrefix(argv[i])}
       /\ \A a \in DOMAIN LinkSet :
            LinkSet[a].arg > 0 => LinkSet[a].str = argv[LinkSet[a].arg]
  /\ (LinkSetBuilt /\ CompileSetBuilt) =>
       ArgSlots(CompileSet) \cap ArgSlots(LinkSet) =
         {i \in DOMAIN argv \ OutputPairs(argv, 1) : HasLinkPrefix(argv[i])}

C7_Witness ==
  /\ LinkSetBuilt /\ CompileSetBuilt
  /\ ArgSlots(CompileSet) \cap ArgSlots(LinkSet) # {}
  /\ OutputPairs(argv, 1) # {}

-----------------------------------------------------------------------------
(* C8, as claimed: no input argument ending in .o appears in the
   compile-stage vector. *)
C8_NoObjectInCompileSet ==
  CompileSetBuilt =>
    \A a \in DOMAIN CompileSet :
      CompileSet[a].arg > 0 => ~HasDotOSuffix(CompileSet[a].str)

(* C8, amended: every input argument ending in .o that is not the path of a
   consumed "-o" is passed to the compile-stage vector, and, once the loop
   over the arguments has ended, has been handed to copy_early_debug_info
   exactly once. *)
ObjectSlots == {i \in DOMAIN argv \ OutputPairs(argv, 1) : HasDotOSuffix(argv[i])}

C8_ObjectsCompiledAndExtracted ==
  /\ CompileSetBuilt => ObjectSlots \subseteq ArgSlots(CompileSet)
  /\ LinkSetBuilt =>
       \A i \in ObjectSlots :
         Cardinality({e \in DOMAIN extracted :
                        extracted[e].arg = i /\ extracted[e].infile = argv[i]}) = 1

C8_Witness ==
  /\ LinkSetBuilt /\ CompileSetBuilt
  /\ ObjectSlots # {}
  /\ \E e \in DOMAIN extracted : extracted[e].arg \in ObjectSlots

-----------------------------------------------------------------------------
(* C9: neither a "-o" of the input nor the path after it is forwarded to the
   compile-stage or the link-stage vector, also when "-o" is the last token,
   and the path is recorded as the output name. *)
C9_OutputOptionConsumed ==
  /\ CompileSetBuilt =>
       /\ ArgSlots(CompileSet) \cap OutputSlots(argv, 1) = {}
       /\ outname = LastOutputPath(argv, 1, NULLP)
  /\ LinkSetBuilt => ArgSlots(LinkSet) \cap OutputSlots(argv, 1) = {}

-----------------------------------------------------------------------------
(* C10: when the probe of <directory>/<backend-name> fails, the directories
   of COMPILER_PATH are probed in their order, the first one with an
   existing, non-directory, executable <backend-name> gives the driver and
   no later one is probed; with no such directory the run ends in a fatal
   configuration error before argument translation. *)
Executable(path) == FileStatus(fsys, path) = "exec"

SearchList ==
  IF environ["COMPILER_PATH"] = NULLP THEN <<>>
  ELSE [k \in DOMAIN parse_env_var(environ["COMPILER_PATH"]) |->
          DriverIn(parse_env_var(environ["COMPILER_PATH"])[k])]

DirectProbeFailed ==
  /\ environ["COLLECT_GCC"] # NULLP
  /\ LastSlash(environ["COLLECT_GCC"]) > 0
  /\ ~Executable(DriverIn(dirname(environ["COLLECT_GCC"])))

\* the lookup has run and the environment is still the one it read
LookupDone == probes # <<>> /\ names.omp = NULLP

C10_FirstMatchOrFatal ==
  (DirectProbeFailed /\ LookupDone) =>
    LET hits   == {k \in DOMAIN SearchList : Executable(SearchList[k])}
        direct == DriverIn(dirname(environ["COLLECT_GCC"]))
    IN  IF hits # {}
          THEN LET first == CHOOSE k \in hits : \A j \in hits : k <= j
               IN  /\ found
                   /\ driver = SearchList[first]
                   /\ probes = <<direct>> \o SubSeq(SearchList, 1, first)
          ELSE /\ ~found
               /\ pc \in {"atexit", "done"}
               /\ exit_kind = "fatal"
               /\ Stages({"translate"}) = {}
               /\ spawned = <<>>


-----------------------------------------------------------------------------
(* C11: GCC_OFFLOAD_OMP_REQUIRES_FILE is set in the environment the compile
   subprocess is launched with, and once the compile stage is over, whatever
   the subprocess's exit status, it is unset: it is unset in every later
   state of the run, the process's last state included. *)
C11_SideChannelCleared ==
  /\ \A k \in Launches("compile") :
       spawned[k].env["GCC_OFFLOAD_OMP_REQUIRES_FILE"] # NULLP
  /\ (Launches("compile") # {} /\ pc \in {"return", "atexit", "done"}) =>
       environ["GCC_OFFLOAD_OMP_REQUIRES_FILE"] = NULLP

-----------------------------------------------------------------------------
RedirectionVars == {"GCC_EXEC_PREFIX", "COMPILER_PATH", "LIBRARY_PATH"}

\* the value main () saved for a variable at lines 442-444
SavedValue(v) ==
  CASE v = "GCC_EXEC_PREFIX" -> names.execpath
    [] v = "COMPILER_PATH"   -> names.cpath
    [] v = "LIBRARY_PATH"    -> names.lpath

(* C12: the three toolchain-redirection variables hold their process-start
   values in the environment of the compile subprocess, are unset in the
   environment of the link subprocess, and hold their process-start values
   again once the run has returned from the stages. *)
C12_RedirectionAroundLinkOnly ==
  \A v \in RedirectionVars :
    /\ \A k \in Launches("compile") : spawned[k].env[v] = SavedValue(v)
    /\ \A k \in Launches("link") : spawned[k].env[v] = NULLP
    /\ (pc = "done" /\ exit_kind = "return" /\ names.omp # NULLP) =>
         environ[v] = SavedValue(v)

-----------------------------------------------------------------------------
\* the calls of copy_early_debug_info on an input that cannot be opened,
\* is not recognised as an object, or has no .gnu.debuglto_.debug_info
RejectedInputs == {"unopenable", "notobject", "nodebug"}

RejectedCalls ==
  {k \in DOMAIN extracted : extracted[k].kind \in RejectedInputs}

(* C13: a call of copy_early_debug_info on an input that cannot be opened,
   is not an object, or has no early-debug section returns false, leaves
   the disk as it found it (outfile neither created nor written), and does
   not end the run: the run goes on past the call. *)
C13_RejectedInputNoSideEffect ==
  \A k \in RejectedCalls :
    /\ extracted[k].ret = "false"
    /\ extracted[k].post = extracted[k].pre
    /\ ~extracted[k].wrote
    /\ (k = Len(extracted) /\ pc \in {"atexit", "done"}) =>
         Launches("compile") # {}

\* a rejected input under save-temps, where no file exists at outfile
\* before the call, and the run went on to launch the compiler and return
C13_Witness ==
  /\ \E k \in RejectedCalls :
       /\ extracted[k].kind = "nodebug"
       /\ extracted[k].out \notin extracted[k].pre
  /\ Launches("compile") # {}
  /\ pc = "done"
  /\ exit_kind = "return"

-----------------------------------------------------------------------------
\* the relocation types of the fixed mapping table and their destination
\* equivalents: absolute 32-bit, PC-relative 32-bit, absolute 64-bit and
\* load-time relative
MappedTypes ==
  {"R_X86_64_32", "R_X86_64_PC32", "R_X86_64_64", "R_X86_64_RELATIVE"}

DestinationType(t) ==
  CASE t = "R_X86_64_32"       -> "DEST_ABS32"
    [] t = "R_X86_64_PC32"     -> "DEST_REL32"
    [] t = "R_X86_64_64"       -> "DEST_ABS64"
    [] t = "R_X86_64_RELATIVE" -> "DEST_RELATIVE64"

SuccessfulCalls == {k \in DOMAIN extracted : extracted[k].ret = "true"}

(* C14: after a call of copy_early_debug_info that returned true, every
   relocation record of the output has the destination type the mapping
   table gives for its x86-64 type, and a record whose type is not in the
   table does not keep its type. *)
C14_RelocationsTranslated ==
  \A k \in SuccessfulCalls :
    LET src == extracted[k].relocs
        out == extracted[k].relocs_out
    IN  /\ Len(out) = Len(src)
        /\ \A i \in DOMAIN src :
             IF src[i] \in MappedTypes
               THEN out[i] = DestinationType(src[i])
               ELSE out[i] # src[i]

-----------------------------------------------------------------------------
(* C15: copy_early_debug_info returns true only for an output whose header
   and section header table it read back and whose e_machine is
   EM_X86_64; an output with another e_machine ends the run as an internal
   error, and one whose header or section header table cannot be read is
   not reported as extracted. *)
C15_SuccessOnlyAfterValidation ==
  \A k \in DOMAIN extracted :
    /\ extracted[k].kind = "badmachine" =>
         /\ extracted[k].ret = "abort"
         /\ exit_kind = "internal"
    /\ extracted[k].ret = "true" =>
         extracted[k].kind \notin {"reopenfail", "shorthdr", "badshdr"}

-----------------------------------------------------------------------------
\* the stage-specific suffixes of the names built from the dump prefix
StageSuffixes ==
  {S_dot_c, S_mkoffload \o S_1s, S_mkoffload \o S_2s, S_omp_requires}
    \cup {S_mkoffload_dbg \o Decimal(n) \o S_dot_o : n \in 0..9}

DeterministicPaths == {concat(<<dumppfx, sfx>>) : sfx \in StageSuffixes}

Registered == {files_to_cleanup[k] : k \in DOMAIN files_to_cleanup}

(* C16: under save-temps make_temp_file is never called, every file the
   run has created and every path in the registry is the dump prefix
   followed by a stage suffix, and every file created is in the registry. *)
C16_SaveTempsNamesDeterministic ==
  save_temps =>
    /\ ntemp = 0
    /\ Registered \subseteq DeterministicPaths
    /\ files \subseteq DeterministicPaths
    /\ files \subseteq Registered

-----------------------------------------------------------------------------
(* C17: the exit hook runs at most once, and once the hook is installed
   every run that has ended, by the return of main or by any fatal path,
   has run it exactly once. *)
C17_CleanupExactlyOnce ==
  /\ cleanups <= 1
  /\ (pc = "done" /\ hook) => cleanups = 1

-----------------------------------------------------------------------------
\* a finished vector ends with its only null pointer
Sealed(vec) ==
  /\ vec # <<>>
  /\ vec[Len(vec)].str = NULLP
  /\ \A k \in 1..(Len(vec) - 1) : vec[k].str # NULLP

(* C18: once the null pointer that ends an argument vector has been
   written, nothing more is appended to that vector's obstack; each
   finished vector holds exactly one null pointer, its last element; and
   a subprocess is launched with a finished vector. *)
C18_NoAppendAfterSentinel ==
  /\ \A ob \in {cc_argv_obstack, ld_argv_obstack} :
       ob.fin # <<>> =>
         /\ ob.grow = <<>>
         /\ Len(ob.fin) = 1
         /\ Sealed(ob.fin[1])
  /\ \A k \in DOMAIN spawned : Sealed(spawned[k].args)

-----------------------------------------------------------------------------
\* the paths at which the run has created a file: the files on disk, and
\* the outputs the extraction wrote and unlinked again
Created ==
  files \cup {extracted[k].out : k \in {j \in DOMAIN extracted : extracted[j].wrote}}

(* C19: when the exit hook runs in a run that named its assembler files,
   the registry holds no debug-object path of an input whose extraction
   did not succeed, and every path in it is an initialised, live string
   that names a file the run created. *)
C19_RegistryNamesCreatedFiles ==
  (pc = "atexit" /\ names.s1 # NULLP) =>
    /\ \A k \in DOMAIN extracted :
         extracted[k].ret # "true" => extracted[k].out \notin Registered
    /\ \A p \in Registered :
         /\ p \notin {NULLP, <<"(wild)">>}
         /\ p \notin freed
         /\ p \in Created

-----------------------------------------------------------------------------
(* C20: every temp artifact path is in files_to_cleanup at most once; the
   value of the uninitialized gcn_o_name is not an artifact path and is
   not counted. *)
C20_RegisteredAtMostOnce ==
  \A p \in Registered \ {names.o} : Count(files_to_cleanup, p) <= 1
=============================================================================
